---------------------------- MODULE Spec2Model ----------------------------
(***************************************************************************)
(* A model of the RAG agent of src/agent.py: the documents directory, the  *)
(* persisted FAISS index directories, the RAGAgent object (vector_store,   *)
(* qa_chain, llm), the operations __init__/_initialize_agent,              *)
(* add_document, rebuild_index and query, and the pure length controller   *)
(* _summarize_text.                                                        *)
(*                                                                         *)
(* Python strings are sequences of pieces.  A piece is one character or a  *)
(* literal fragment of the source (an error message, a file extension).    *)
(* len() is Len, slicing is SubSeq, "x in s" is membership of a piece.     *)
(***************************************************************************)
EXTENDS Integers, Sequences, FiniteSets, TLC

(* ------------------------------ bounds --------------------------------- *)
\* longest text handed to _summarize_text in SpecBound
MaxTextLen == 4
\* largest max_length handed to _summarize_text in SpecBound
MaxMaxLength == 3
\* operations (constructor runs, add_document, rebuild_index) started in a run
MaxOps == 4
\* the clock (time.time() in whole seconds) runs over 0..MaxClock
MaxClock == 1

(* ------------------------------ strings -------------------------------- *)
Whitespace == {" "}
Chars == {"a", " "}

Min(a, b) == IF a < b THEN a ELSE b

\* every text over Chars of length <= n
RECURSIVE TextsUpTo(_)
TextsUpTo(n) ==
    IF n = 0 THEN {<<>>}
    ELSE LET shorter == TextsUpTo(n - 1)
         IN  shorter \cup {Append(s, c) : s \in {x \in shorter : Len(x) = n - 1}, c \in Chars}

\* str.rstrip(): drop trailing whitespace
RECURSIVE RStrip(_)
RStrip(s) ==
    IF s = <<>> THEN s
    ELSE IF s[Len(s)] \in Whitespace THEN RStrip(SubSeq(s, 1, Len(s) - 1))
    ELSE s

\* str.lstrip(): drop leading whitespace
RECURSIVE LStrip(_)
LStrip(s) ==
    IF s = <<>> THEN s
    ELSE IF s[1] \in Whitespace THEN LStrip(SubSeq(s, 2, Len(s)))
    ELSE s

\* str.strip()
Strip(s) == RStrip(LStrip(s))

\* s[:n] for n >= 0
Slice(s, n) == SubSeq(s, 1, Min(n, Len(s)))

\* the literal "..." of lines 158, 170, 172
Ellipsis == <<".", ".", ".">>

\* text[:max_length].rstrip() + "..."
Truncate(text, max_length) == RStrip(Slice(text, max_length)) \o Ellipsis

(* The outcome of one call of the generation provider: it raises, or it    *)
(* returns a text.                                                         *)
ProviderRaises == [kind |-> "raise", text |-> <<>>]
ProviderReturns(t) == [kind |-> "ok", text |-> t]

\* RAGAgent._summarize_text(text, max_length); llm is whether self.llm is
\* set, resp the outcome of self.llm.invoke(prompt) when it is called
SummarizeText(text, max_length, llm, resp) ==
    IF text = <<>> \/ max_length <= 0 THEN <<>>
    ELSE IF Len(text) <= max_length THEN text
    ELSE IF ~llm THEN Truncate(text, max_length)
    ELSE IF resp.kind = "raise" THEN Truncate(text, max_length)
    ELSE LET summary == Strip(resp.text)
         IN  IF Len(summary) <= max_length THEN summary
             ELSE Truncate(summary, max_length)

\* whether _summarize_text reaches self.llm.invoke (line 166)
SummarizeCallsProvider(text, max_length, llm) ==
    text # <<>> /\ max_length > 0 /\ Len(text) > max_length /\ llm

(* --------------------------- exceptions -------------------------------- *)
(* What a provider call or a library call can raise.  str(e) is msg; the   *)
(* handlers test it with "in" (lines 143, 233).                            *)
ConnRefused == [type |-> "ConnectionError", msg |-> <<"[Errno 111] ", "Connection refused">>]
MaxRetries  == [type |-> "ConnectionError",
                msg |-> <<"HTTPConnectionPool: ", "Max retries exceeded", " with url">>]
ReadTimeout == [type |-> "ReadTimeout", msg |-> <<"HTTPConnectionPool: ", "Read timed out">>]
InternalError == [type |-> "KeyError", msg |-> <<"'query'">>]
NoException == [type |-> "None", msg |-> <<>>]
\* what the file system raises: open() (line 257), the loaders (line 84),
\* load_local (line 64) and save_local (line 105)
StorageError == [type |-> "OSError", msg |-> <<"[Errno 28] ", "No space left on device">>]

\* the provider is unreachable, or the call exceeded its timeout (timeout=600, line 114)
ProviderFailures == {ConnRefused, MaxRetries, ReadTimeout}
QueryExceptions == ProviderFailures \cup {InternalError}

\* "fragment in str(e)"
Contains(msg, fragment) == \E i \in DOMAIN msg : msg[i] = fragment

(* ------------------------ what query returns --------------------------- *)
\* line 220
NotInitializedMsg == <<"Agent not properly initialized. Make sure Ollama is running.">>
\* lines 234-237
UnreachableMsg == <<"Error: Ollama is unreachable. Start it with ollama serve ",
                    "or set OLLAMA_BASE_URL to the correct endpoint.">>
\* line 238
GenericErrorMsg(e) == <<"Error processing query: ", e.type, ": ">> \o e.msg

\* the except clause of query, lines 229-238
QueryErrorResult(e) ==
    IF Contains(e.msg, "Connection refused") \/ Contains(e.msg, "Max retries exceeded")
    THEN UnreachableMsg
    ELSE GenericErrorMsg(e)

\* texts the generation provider can return as the answer (result["result"])
GenTexts == {<<"a">>, <<"a", "a", " ", "a">>, NotInitializedMsg}
\* texts the generation provider can return as a summary
SummaryTexts == {<<"a">>, <<" ", "a", "a", "a">>}
\* values config.MAX_RESPONSE_LENGTH can have; 0 stands for None or a missing config
MaxResponseLengths == {0 - 1, 0, 2}

\* the test of line 225 with "max_length > 0" for "max_length"
ShapeAnswerPositiveOnly(answer, max_length, llm, resp) ==
    IF max_length > 0 /\ Len(answer) > max_length
    THEN SummarizeText(answer, max_length, llm, resp)
    ELSE answer

\* lines 223-227 of query: the answer shaped by the configured maximum
ShapeAnswer(answer, max_length, llm, resp) ==
    IF max_length # 0 /\ Len(answer) > max_length
    THEN SummarizeText(answer, max_length, llm, resp)
    ELSE answer

(* --------------------------- file system ------------------------------- *)
NoFile == "NoFile"
Contents == {"c1", "c2"}
SampleContent == "Sample Document - About Artificial Intelligence"

\* a file name is its stem followed by its extension
SampleName == <<"sample", ".txt">>
AutoName(t) == <<"document_", ToString(t), ".txt">>
GivenNames == {<<"a", ".txt">>, <<"n", ".md">>}
\* filename=None
NoName == <<>>
FileNames == {SampleName} \cup GivenNames \cup {AutoName(t) : t \in 0..MaxClock}
Ext(name) == name[Len(name)]

\* DirectoryLoader glob "**/*.txt" and "**/*.pdf", lines 74-83
Globbed(name) == Ext(name) \in {".txt", ".pdf"}

\* text_loader.load() + pdf_loader.load() on directory contents fs: the
\* documents, each a <<name, content>> pair
LoadDocuments(fs) == {<<n, fs[n]>> : n \in {m \in FileNames : fs[m] # NoFile /\ Globbed(m)}}

\* RecursiveCharacterTextSplitter(chunk_size=700): every document of the
\* model is shorter than a chunk and yields exactly one chunk
SplitDocuments(documents) == documents

(* ----------------------- embedding identities -------------------------- *)
DefaultEmbeddings == <<"n">>
EmbeddingModels == {<<"m", ":", "v">>, <<"m", "_", "v">>, DefaultEmbeddings}

\* str.replace(":", "_"), line 42
SafeName(model) == [i \in DOMAIN model |-> IF model[i] = ":" THEN "_" ELSE model[i]]
\* os.path.join(docs_dir, f"faiss_index_{safe_embeddings_name}"), line 43
FaissIndexPath(model) == <<"faiss_index_">> \o SafeName(model)
IndexPaths == {FaissIndexPath(m) : m \in EmbeddingModels}

(* A persisted index directory holds index.faiss (the vectors) and         *)
(* index.pkl (the docstore).  save_local creates the directory, writes     *)
(* index.faiss and then index.pkl; load_local reads both.                  *)
NoDir == [kind |-> "absent"]
NoPart == [kind |-> "missing"]
FaissPart(chunks, model) == [kind |-> "file", chunks |-> chunks, model |-> model]
PklPart(chunks) == [kind |-> "file", chunks |-> chunks]
Dir(faiss, pkl) == [kind |-> "dir", faiss |-> faiss, pkl |-> pkl]
\* os.path.exists(self.faiss_index_path)
Exists(d) == d.kind = "dir"
\* both files are there, so load_local returns a store
Loadable(d) == Exists(d) /\ d.faiss.kind = "file" /\ d.pkl.kind = "file"

(* A FAISS store in memory: vec the chunks whose vectors it holds, model   *)
(* the embedding model that made the vectors, docs the chunks of its       *)
(* docstore.                                                               *)
NoStore == [kind |-> "None"]
Store(vec, model, docs) == [kind |-> "FAISS", vec |-> vec, model |-> model, docs |-> docs]
\* FAISS.load_local(path, embeddings), lines 64-67
LoadLocal(d) == Store(d.faiss.chunks, d.faiss.model, d.pkl.chunks)
\* vectors and docstore come from one build
Consistent(s) == s.kind = "FAISS" /\ s.vec = s.docs

NoChain == [kind |-> "None"]
\* RetrievalQA over vector_store.as_retriever(), lines 131-137
Chain(store) == [kind |-> "chain", store |-> store]

(* ------------------------------ state ---------------------------------- *)
Mutators == {"t1", "t2"}
\* the thread that runs the constructor
MainThread == "t1"
Queriers == {"q1"}

VARIABLES
    files,             \* the documents directory: file name -> content or NoFile
    index_dirs,        \* index path -> the persisted index directory there
    clock,             \* int(time.time())
    phase,             \* "down": no agent; "constructing": __init__ runs; "up": constructed
    embeddings_model,  \* self.embeddings_model
    vector_store,      \* self.vector_store
    qa_chain,          \* self.qa_chain
    llm,               \* whether self.llm is set
    pc,                \* where each mutating thread stands
    op,                \* the operation it runs: "init", "add", "rebuild" or "none"
    arg,               \* add_document's <<filename, content>>
    documents,         \* the local documents of _initialize_agent
    embedded,          \* the chunks FAISS.from_documents has embedded so far
    saving,            \* the store whose save_local is running
    ret,               \* what the operation returned
    qpc,               \* where each querying thread stands
    qret,              \* the query's result and what led to it
    last_init,         \* how the latest _initialize_agent ended: "none", "ok", "failed"
    added,             \* the <<filename, content>> add_document returned True for
    exc,               \* per thread: the exception raised inside its operation, and
                       \* the exception that left the operation to its caller
    before,            \* per thread: the knowledge base as add_document found it
    nops,
    b_pc, b_in, b_out, b_calls   \* _summarize_text on its own (SpecBound)

fsVars == <<files, index_dirs, clock>>
agentVars == <<phase, embeddings_model, vector_store, qa_chain, llm>>
threadVars == <<pc, op, arg, documents, embedded, saving, ret>>
queryVars == <<qpc, qret>>
ghostVars == <<last_init, added, exc, before>>
countVars == <<nops>>
boundVars == <<b_pc, b_in, b_out, b_calls>>
vars == <<fsVars, agentVars, threadVars, queryVars, ghostVars, countVars, boundVars>>

NoArg == <<NoName, NoFile>>
NoQuery == [kind |-> "none", value |-> <<>>, raw |-> <<>>, fault |-> NoException,
            mgr |-> "none", chain |-> NoChain, max_length |-> 0, resp |-> ProviderRaises]
NoBoundIn == [text |-> <<>>, max_length |-> 0, llm |-> FALSE, resp |-> ProviderRaises]

\* no exception was raised, none left the operation
NoExc == [raised |-> NoException, out |-> NoException]
\* the documents directory, the persisted index at self.faiss_index_path and
\* the chain query reads, as they are when add_document is entered
NoBefore == [kind |-> "none"]
Before(fs, d, chain) == [kind |-> "snapshot", files |-> fs, dir |-> d, chain |-> chain]

\* self.faiss_index_path
Path == FaissIndexPath(embeddings_model)

\* the steps between discarding the persisted index and installing the new chain
RebuildPcs == {"rm", "exists", "ingest", "sample", "embed", "save1", "save2", "chain"}

(* The state of the Index Cache Manager, read off the agent: the code      *)
(* keeps no such field.                                                    *)
ManagerState ==
    IF \E t \in Mutators :
           \/ op[t] \in {"add", "rebuild"} /\ pc[t] \in RebuildPcs
           \/ op[t] = "init" /\ pc[t] \in {"ingest", "sample", "embed", "save1", "save2"}
    THEN "Rebuilding"
    ELSE IF \E t \in Mutators : op[t] = "init" /\ pc[t] \in {"exists", "load", "chain"}
    THEN "Loading"
    ELSE IF last_init = "failed" THEN "Failed"
    ELSE IF phase = "up" /\ last_init = "ok" /\ qa_chain.kind = "chain" THEN "Ready"
    ELSE "Unloaded"

InitAgent ==
    /\ files = [n \in FileNames |-> NoFile]
    /\ index_dirs = [p \in IndexPaths |-> NoDir]
    /\ clock = 0
    /\ phase = "down"
    /\ embeddings_model = DefaultEmbeddings
    /\ vector_store = NoStore
    /\ qa_chain = NoChain
    /\ llm = FALSE
    /\ pc = [t \in Mutators |-> "idle"]
    /\ op = [t \in Mutators |-> "none"]
    /\ arg = [t \in Mutators |-> NoArg]
    /\ documents = [t \in Mutators |-> {}]
    /\ embedded = [t \in Mutators |-> {}]
    /\ saving = [t \in Mutators |-> NoStore]
    /\ ret = [t \in Mutators |-> "none"]
    /\ qpc = [q \in Queriers |-> "idle"]
    /\ qret = [q \in Queriers |-> NoQuery]
    /\ last_init = "none"
    /\ added = {}
    /\ exc = [t \in Mutators |-> NoExc]
    /\ before = [t \in Mutators |-> NoBefore]
    /\ nops = 0

Init ==
    /\ InitAgent
    /\ b_pc = "off" /\ b_in = NoBoundIn /\ b_out = <<>> /\ b_calls = 0

(* ------------------- __init__ and _initialize_agent -------------------- *)
\* RAGAgent(embeddings_model=m), lines 33-49, up to the call of _initialize_agent
Construct(m) ==
    /\ phase = "down" /\ nops < MaxOps
    /\ phase' = "constructing"
    /\ embeddings_model' = m
    /\ vector_store' = NoStore /\ qa_chain' = NoChain /\ llm' = FALSE
    /\ pc' = [pc EXCEPT ![MainThread] = "exists"]
    /\ op' = [op EXCEPT ![MainThread] = "init"]
    /\ nops' = nops + 1
    /\ exc' = [exc EXCEPT ![MainThread] = NoExc]
    /\ UNCHANGED <<fsVars, arg, documents, embedded, saving, ret, queryVars, last_init, added,
                   before, boundVars>>

(* An exception e inside _initialize_agent: lines 141-149 print and         *)
(* re-raise.  add_document and rebuild_index catch it, print it and return  *)
(* False (269-271, 282-284); the constructor lets it out and no agent       *)
(* object comes to be.                                                      *)
Raise(t, e) ==
    /\ exc' = [exc EXCEPT ![t] = [raised |-> e,
                                  out |-> IF op[t] = "init" THEN e ELSE NoException]]
    /\ pc' = [pc EXCEPT ![t] = IF op[t] = "init" THEN "idle" ELSE "done"]
    /\ op' = [op EXCEPT ![t] = IF op[t] = "init" THEN "none" ELSE @]
    /\ ret' = [ret EXCEPT ![t] = IF op[t] = "init" THEN "none" ELSE "False"]
    /\ phase' = IF op[t] = "init" THEN "down" ELSE phase
    /\ last_init' = IF op[t] = "init" THEN "none" ELSE "failed"
    /\ documents' = [documents EXCEPT ![t] = {}]
    /\ embedded' = [embedded EXCEPT ![t] = {}]
    /\ saving' = [saving EXCEPT ![t] = NoStore]

\* the fields of the agent after a raise at a point where vs is self.vector_store
RaiseFields(t, vs) ==
    /\ vector_store' = IF op[t] = "init" THEN NoStore ELSE vs
    /\ qa_chain' = IF op[t] = "init" THEN NoChain ELSE qa_chain
    /\ llm' = IF op[t] = "init" THEN FALSE ELSE llm

\* line 62: os.path.exists(self.faiss_index_path)
InitExists(t) ==
    /\ pc[t] = "exists"
    /\ pc' = [pc EXCEPT ![t] = IF Exists(index_dirs[Path]) THEN "load" ELSE "ingest"]
    /\ UNCHANGED <<fsVars, agentVars, op, arg, documents, embedded, saving, ret, queryVars,
                   ghostVars, countVars, boundVars>>

\* lines 63-68: FAISS.load_local; it raises when a file of the index is missing
InitLoad(t) ==
    /\ pc[t] = "load"
    /\ IF Loadable(index_dirs[Path])
       THEN /\ vector_store' = LoadLocal(index_dirs[Path])
            /\ pc' = [pc EXCEPT ![t] = "chain"]
            /\ UNCHANGED <<phase, qa_chain, llm, op, documents, embedded, saving, ret,
                           last_init, exc>>
       ELSE Raise(t, StorageError) /\ RaiseFields(t, vector_store)
    /\ UNCHANGED <<fsVars, embeddings_model, arg, queryVars, added, before, countVars,
                   boundVars>>

\* lines 71-90 up to the emptiness test: the documents are loaded
InitIngest(t) ==
    /\ pc[t] = "ingest"
    /\ \/ /\ documents' = [documents EXCEPT ![t] = LoadDocuments(files)]
          /\ pc' = [pc EXCEPT ![t] = IF LoadDocuments(files) = {} THEN "sample" ELSE "embed"]
          /\ UNCHANGED <<agentVars, op, embedded, saving, ret, last_init, exc>>
       \/ /\ Raise(t, StorageError) /\ RaiseFields(t, vector_store)
          /\ UNCHANGED embeddings_model
    /\ UNCHANGED <<fsVars, arg, queryVars, added, before, nops, boundVars>>

\* lines 86-90 and 174-206: no documents, so sample.txt is written and the
\* directory is loaded again
InitSample(t) ==
    /\ pc[t] = "sample"
    /\ files' = [files EXCEPT ![SampleName] = SampleContent]
    /\ documents' = [documents EXCEPT ![t] = LoadDocuments(files')]
    /\ pc' = [pc EXCEPT ![t] = "embed"]
    /\ UNCHANGED <<index_dirs, clock, agentVars, op, arg, embedded, saving, ret, queryVars,
                   ghostVars, countVars, boundVars>>

\* the next chunk FAISS.from_documents sends to the embedding provider
NextChunk(t) == CHOOSE c \in SplitDocuments(documents[t]) \ embedded[t] : TRUE

\* self.vector_store after from_documents has embedded the chunks done of all:
\* the assignment of line 101 happens when from_documents returns
StoreAfterEmbedding(current, done, all, model) ==
    IF done = all THEN Store(all, model, all) ELSE current

\* lines 92-101: split, then one embedding call per chunk; line 101 assigns
\* self.vector_store once every chunk is embedded
InitEmbed(t) ==
    /\ pc[t] = "embed"
    /\ \/ /\ SplitDocuments(documents[t]) # {}
          /\ LET all == SplitDocuments(documents[t])
                 done == embedded[t] \cup {NextChunk(t)}
             IN  /\ vector_store' = StoreAfterEmbedding(vector_store, done, all, embeddings_model)
                 /\ embedded' = [embedded EXCEPT ![t] = IF done = all THEN {} ELSE done]
                 /\ pc' = [pc EXCEPT ![t] = IF done = all THEN "save1" ELSE "embed"]
          /\ UNCHANGED <<phase, embeddings_model, qa_chain, llm, op, documents, saving, ret,
                         last_init, exc>>
       \/ /\ Raise(t, ConnRefused) /\ RaiseFields(t, vector_store)
          /\ UNCHANGED embeddings_model
    /\ UNCHANGED <<fsVars, arg, queryVars, added, before, nops, boundVars>>

\* line 105, first half: save_local of self.vector_store makes the directory
\* and writes index.faiss
InitSave1(t) ==
    /\ pc[t] = "save1"
    /\ \/ /\ saving' = [saving EXCEPT ![t] = vector_store]
          /\ index_dirs' = [index_dirs EXCEPT ![Path] =
                 Dir(FaissPart(vector_store.vec, vector_store.model),
                     IF Exists(@) THEN @.pkl ELSE NoPart)]
          /\ pc' = [pc EXCEPT ![t] = "save2"]
          /\ UNCHANGED <<agentVars, op, documents, embedded, ret, last_init, exc>>
       \/ /\ Raise(t, StorageError) /\ RaiseFields(t, vector_store)
          /\ UNCHANGED <<embeddings_model, index_dirs>>
    /\ UNCHANGED <<files, clock, arg, queryVars, added, before, nops, boundVars>>

\* line 105, second half: save_local writes index.pkl; the write raises when
\* the directory is gone
InitSave2(t) ==
    /\ pc[t] = "save2"
    /\ IF Exists(index_dirs[Path])
       THEN /\ index_dirs' = [index_dirs EXCEPT ![Path] = Dir(@.faiss, PklPart(saving[t].docs))]
            /\ saving' = [saving EXCEPT ![t] = NoStore]
            /\ pc' = [pc EXCEPT ![t] = "chain"]
            /\ UNCHANGED <<agentVars, op, documents, embedded, ret, last_init, exc>>
       ELSE /\ Raise(t, StorageError) /\ RaiseFields(t, vector_store)
            /\ UNCHANGED <<embeddings_model, index_dirs>>
    /\ UNCHANGED <<files, clock, arg, queryVars, added, before, countVars, boundVars>>

\* lines 108-139: self.llm and self.qa_chain are set, the chain over the
\* current self.vector_store; the operation returns (True for add_document
\* and rebuild_index, lines 267 and 281)
InitChain(t) ==
    /\ pc[t] = "chain"
    /\ llm' = TRUE
    /\ qa_chain' = Chain(vector_store)
    /\ phase' = "up"
    /\ last_init' = "ok"
    /\ pc' = [pc EXCEPT ![t] = "done"]
    /\ ret' = [ret EXCEPT ![t] = "True"]
    /\ documents' = [documents EXCEPT ![t] = {}]
    /\ added' = IF op[t] = "add" THEN added \cup {arg[t]} ELSE added
    /\ UNCHANGED <<fsVars, embeddings_model, vector_store, op, arg, embedded, saving,
                   queryVars, exc, before, countVars, boundVars>>

\* the caller takes the result
Return(t) ==
    /\ pc[t] = "done"
    /\ pc' = [pc EXCEPT ![t] = "idle"]
    /\ op' = [op EXCEPT ![t] = "none"]
    /\ arg' = [arg EXCEPT ![t] = NoArg]
    /\ ret' = [ret EXCEPT ![t] = "none"]
    /\ exc' = [exc EXCEPT ![t] = NoExc]
    /\ before' = [before EXCEPT ![t] = NoBefore]
    /\ UNCHANGED <<fsVars, agentVars, documents, embedded, saving, queryVars, last_init,
                   added, countVars, boundVars>>

(* -------------------- add_document and rebuild_index ------------------- *)
\* line 254: filename defaults to document_<seconds>.txt
FileNameFor(filename, now) == IF filename = NoName THEN AutoName(now) ELSE filename

\* lines 251-258: the file is written; open() can fail, and then
\* add_document prints the exception and returns False (269-271)
AddDocument(t, content, filename) ==
    /\ phase = "up" /\ pc[t] = "idle" /\ nops < MaxOps
    /\ nops' = nops + 1
    /\ op' = [op EXCEPT ![t] = "add"]
    /\ before' = [before EXCEPT ![t] = Before(files, index_dirs[Path], qa_chain)]
    /\ LET name == FileNameFor(filename, clock)
       IN  /\ arg' = [arg EXCEPT ![t] = <<name, content>>]
           /\ \/ /\ files' = [files EXCEPT ![name] = content]
                 /\ pc' = [pc EXCEPT ![t] = "rm"]
                 /\ UNCHANGED <<ret, exc>>
              \/ /\ pc' = [pc EXCEPT ![t] = "done"]
                 /\ ret' = [ret EXCEPT ![t] = "False"]
                 /\ exc' = [exc EXCEPT ![t] = [raised |-> StorageError,
                                               out |-> NoException]]
                 /\ UNCHANGED files
    /\ UNCHANGED <<index_dirs, clock, agentVars, documents, embedded, saving, queryVars,
                   last_init, added, boundVars>>

\* line 275: rebuild_index is entered
RebuildIndex(t) ==
    /\ phase = "up" /\ pc[t] = "idle" /\ nops < MaxOps
    /\ nops' = nops + 1
    /\ op' = [op EXCEPT ![t] = "rebuild"]
    /\ pc' = [pc EXCEPT ![t] = "rm"]
    /\ UNCHANGED <<fsVars, agentVars, arg, documents, embedded, saving, ret, queryVars,
                   ghostVars, boundVars>>

\* lines 260-263 and 276-278: the persisted index at self.faiss_index_path
\* is removed if it is there; then _initialize_agent is called
RemoveCache(t) ==
    /\ pc[t] = "rm"
    /\ index_dirs' = [index_dirs EXCEPT ![Path] = NoDir]
    /\ pc' = [pc EXCEPT ![t] = "exists"]
    /\ UNCHANGED <<files, clock, agentVars, op, arg, documents, embedded, saving, ret,
                   queryVars, ghostVars, countVars, boundVars>>

(* ------------------------- the environment ----------------------------- *)
\* the process stops; the files stay
Crash ==
    /\ phase # "down"
    /\ phase' = "down"
    /\ vector_store' = NoStore /\ qa_chain' = NoChain /\ llm' = FALSE
    /\ pc' = [t \in Mutators |-> "idle"]
    /\ op' = [t \in Mutators |-> "none"]
    /\ arg' = [t \in Mutators |-> NoArg]
    /\ documents' = [t \in Mutators |-> {}]
    /\ embedded' = [t \in Mutators |-> {}]
    /\ saving' = [t \in Mutators |-> NoStore]
    /\ ret' = [t \in Mutators |-> "none"]
    /\ qpc' = [q \in Queriers |-> "idle"]
    /\ qret' = [q \in Queriers |-> NoQuery]
    /\ last_init' = "none"
    /\ exc' = [t \in Mutators |-> NoExc]
    /\ before' = [t \in Mutators |-> NoBefore]
    /\ UNCHANGED <<fsVars, embeddings_model, added, nops, boundVars>>

\* a second passes
Tick ==
    /\ clock < MaxClock
    /\ clock' = clock + 1
    /\ UNCHANGED <<files, index_dirs, agentVars, threadVars, queryVars, ghostVars, countVars,
                   boundVars>>

(* ------------------------------- query --------------------------------- *)
\* line 219: the test of self.qa_chain
QueryCheck(q) ==
    /\ phase = "up" /\ qpc[q] = "idle"
    /\ IF qa_chain = NoChain
       THEN /\ qpc' = [qpc EXCEPT ![q] = "done"]
            /\ qret' = [qret EXCEPT ![q] = [NoQuery EXCEPT !.kind = "not_ready",
                                                         !.value = NotInitializedMsg,
                                                         !.mgr = ManagerState]]
       ELSE /\ qpc' = [qpc EXCEPT ![q] = "invoke"]
            /\ qret' = [qret EXCEPT ![q] = [NoQuery EXCEPT !.mgr = ManagerState]]
    /\ UNCHANGED <<fsVars, agentVars, threadVars, ghostVars, countVars, boundVars>>

\* the value query returns when the chain raises e: lines 229-238
QueryFails(q, chain, e) ==
    qret' = [qret EXCEPT ![q] = [@ EXCEPT !.kind = "error", !.value = QueryErrorResult(e),
                                          !.fault = e, !.chain = chain]]

\* lines 222-238: self.qa_chain is read and invoked.  The chain embeds the
\* question, retrieves from its own store (k = 1: the chunk of the nearest
\* vector, looked up in the docstore) and generates; the answer is shaped by
\* the configured maximum.  Either provider call can raise, and so does the
\* lookup of a vector the docstore does not know.
\* env says how the providers and the configuration behave during the call:
\* env.fault is what a provider call raises (NoException: nothing),
\* env.answer the generated text, env.max_length config.MAX_RESPONSE_LENGTH,
\* env.resp the outcome of the summarising call (recorded when the call is made)
QueryInvoke(q, env) ==
    /\ qpc[q] = "invoke"
    /\ qpc' = [qpc EXCEPT ![q] = "done"]
    /\ IF env.fault # NoException
       THEN QueryFails(q, qa_chain, env.fault)
       ELSE IF qa_chain.store.vec = {}
       THEN QueryFails(q, qa_chain, InternalError)
       ELSE \E nearest \in qa_chain.store.vec :
               IF nearest \notin qa_chain.store.docs
               THEN QueryFails(q, qa_chain, InternalError)
               ELSE qret' = [qret EXCEPT ![q] =
                               [@ EXCEPT !.kind = "answer",
                                         !.value = ShapeAnswer(env.answer, env.max_length,
                                                               llm, env.resp),
                                         !.raw = env.answer,
                                         !.chain = qa_chain,
                                         !.max_length = env.max_length,
                                         !.resp =
                                             IF SummarizeCallsProvider(
                                                    env.answer, env.max_length, llm)
                                             THEN env.resp ELSE ProviderRaises]]
    /\ UNCHANGED <<fsVars, agentVars, threadVars, ghostVars, countVars, boundVars>>

\* the caller takes the result
QueryReturn(q) ==
    /\ qpc[q] = "done"
    /\ qpc' = [qpc EXCEPT ![q] = "idle"]
    /\ qret' = [qret EXCEPT ![q] = NoQuery]
    /\ UNCHANGED <<fsVars, agentVars, threadVars, ghostVars, countVars, boundVars>>

(* ------------------------------ Spec ----------------------------------- *)
(* How the providers and the configuration can behave during one query.    *)
QueryEnv(fault, answer, max_length, resp) ==
    [fault |-> fault, answer |-> answer, max_length |-> max_length, resp |-> resp]
SummaryResponses == {ProviderRaises} \cup {ProviderReturns(x) : x \in SummaryTexts}
QueryEnvs ==
    {QueryEnv(e, <<>>, 0, ProviderRaises) : e \in QueryExceptions}
    \cup {QueryEnv(NoException, a, m, r) :
             a \in GenTexts, m \in MaxResponseLengths, r \in SummaryResponses}

\* no operation and no query is under way
CallerFree ==
    /\ \A t \in Mutators : pc[t] = "idle"
    /\ \A q \in Queriers : qpc[q] = "idle"

(* Spec: one caller.  It constructs the agent and calls add_document,      *)
(* rebuild_index and query one after the other; the process can stop at    *)
(* any step and be started again, under any embedding model.               *)
Next ==
    \/ \E m \in EmbeddingModels : Construct(m)
    \/ InitExists(MainThread)
    \/ InitLoad(MainThread)
    \/ InitIngest(MainThread)
    \/ InitSample(MainThread)
    \/ InitEmbed(MainThread)
    \/ InitSave1(MainThread)
    \/ InitSave2(MainThread)
    \/ InitChain(MainThread)
    \/ Return(MainThread)
    \/ CallerFree /\ \E c \in Contents, f \in GivenNames \cup {NoName} :
                        AddDocument(MainThread, c, f)
    \/ CallerFree /\ RebuildIndex(MainThread)
    \/ RemoveCache(MainThread)
    \/ Crash
    \/ Tick
    \/ CallerFree /\ \E q \in Queriers : QueryCheck(q)
    \/ \E q \in Queriers, env \in QueryEnvs : QueryInvoke(q, env)
    \/ \E q \in Queriers : QueryReturn(q)

Spec == Init /\ [][Next]_vars

(* SpecConcurrent: two threads call add_document and rebuild_index and a   *)
(* third calls query, all on one agent, with every interleaving of their   *)
(* steps.  The threads are interchangeable, so a call that arrives while   *)
(* no operation runs is given to the first.                                *)
ConcurrentModel == DefaultEmbeddings
ConcurrentContent == "c1"
ConcurrentName == <<"a", ".txt">>
ConcurrentEnvs ==
    {QueryEnv(ConnRefused, <<>>, 0, ProviderRaises),
     QueryEnv(NoException, <<"a">>, 0, ProviderRaises)}

CanStart(t) == t = MainThread \/ pc[MainThread] # "idle"

NextConcurrent ==
    \/ Construct(ConcurrentModel)
    \/ \E t \in Mutators : InitExists(t)
    \/ \E t \in Mutators : InitLoad(t)
    \/ \E t \in Mutators : InitIngest(t)
    \/ \E t \in Mutators : InitSample(t)
    \/ \E t \in Mutators : InitEmbed(t)
    \/ \E t \in Mutators : InitSave1(t)
    \/ \E t \in Mutators : InitSave2(t)
    \/ \E t \in Mutators : InitChain(t)
    \/ \E t \in Mutators : Return(t)
    \/ \E t \in Mutators : CanStart(t) /\ AddDocument(t, ConcurrentContent, ConcurrentName)
    \/ \E t \in Mutators : CanStart(t) /\ RebuildIndex(t)
    \/ \E t \in Mutators : RemoveCache(t)
    \/ Crash
    \/ \E q \in Queriers : QueryCheck(q)
    \/ \E q \in Queriers, env \in ConcurrentEnvs : QueryInvoke(q, env)
    \/ \E q \in Queriers : QueryReturn(q)

SpecConcurrent == Init /\ [][NextConcurrent]_vars

(* SpecQuery: one caller as in Spec, with every behaviour of the providers *)
(* and of the configuration during a query, and with one embedding model,  *)
(* one content and one file name for the operations that build the index.  *)
NextQuery ==
    \/ Construct(ConcurrentModel)
    \/ InitExists(MainThread)
    \/ InitLoad(MainThread)
    \/ InitIngest(MainThread)
    \/ InitSample(MainThread)
    \/ InitEmbed(MainThread)
    \/ InitSave1(MainThread)
    \/ InitSave2(MainThread)
    \/ InitChain(MainThread)
    \/ Return(MainThread)
    \/ CallerFree /\ AddDocument(MainThread, ConcurrentContent, ConcurrentName)
    \/ CallerFree /\ RebuildIndex(MainThread)
    \/ RemoveCache(MainThread)
    \/ Crash
    \/ CallerFree /\ \E q \in Queriers : QueryCheck(q)
    \/ \E q \in Queriers, env \in QueryEnvs : QueryInvoke(q, env)
    \/ \E q \in Queriers : QueryReturn(q)

SpecQuery == Init /\ [][NextQuery]_vars

(* ---------------- _summarize_text on its own: SpecBound ---------------- *)
BoundTexts == TextsUpTo(MaxTextLen)
BoundResponses == {ProviderRaises} \cup {ProviderReturns(x) : x \in BoundTexts}

InitBound ==
    /\ InitAgent
    /\ b_pc = "start"
    /\ b_in \in [text : BoundTexts, max_length : (0 - 1)..MaxMaxLength, llm : BOOLEAN,
                 resp : BoundResponses]
    /\ b_out = <<>>
    /\ b_calls = 0

\* bound(text, max_length)
BoundOnce ==
    /\ b_pc = "start"
    /\ b_pc' = "once"
    /\ b_out' = SummarizeText(b_in.text, b_in.max_length, b_in.llm, b_in.resp)
    /\ b_calls' = IF SummarizeCallsProvider(b_in.text, b_in.max_length, b_in.llm) THEN 1 ELSE 0
    /\ UNCHANGED <<fsVars, agentVars, threadVars, queryVars, ghostVars, countVars, b_in>>

\* bound applied to its own output, with the same max_length
BoundAgain ==
    /\ b_pc = "once"
    /\ b_pc' = "twice"
    /\ \E resp \in BoundResponses :
          /\ b_in' = [b_in EXCEPT !.text = b_out, !.resp = resp]
          /\ b_out' = SummarizeText(b_out, b_in.max_length, b_in.llm, resp)
    /\ b_calls' = IF SummarizeCallsProvider(b_out, b_in.max_length, b_in.llm) THEN 1 ELSE 0
    /\ UNCHANGED <<fsVars, agentVars, threadVars, queryVars, ghostVars, countVars>>

NextBound == BoundOnce \/ BoundAgain

SpecBound == InitBound /\ [][NextBound]_vars

(* ------------------------------ claims --------------------------------- *)

\* C1 (SpecBound): for every text, every max_length > 0 and every provider
\* behaviour, the text _summarize_text returns is at most max_length long.
C1_LengthBound ==
    (b_pc = "once" /\ b_in.max_length > 0) => Len(b_out) <= b_in.max_length

\* every value the error paths of query return (lines 220, 234-238)
ErrorValues ==
    {NotInitializedMsg, UnreachableMsg} \cup {GenericErrorMsg(e) : e \in QueryExceptions}

\* C2: query always returns a value, a failure of a provider or of the
\* retrieval gives an error result, and an error result is distinguishable
\* from a produced answer: no answer is a value the error paths return.
C2_StructuredError ==
    \A q \in Queriers :
        qpc[q] = "done" =>
            /\ qret[q].kind \in {"answer", "error", "not_ready"}
            /\ qret[q].fault # NoException =>
                   qret[q].kind = "error" /\ qret[q].value \in ErrorValues
            /\ qret[q].kind = "answer" => qret[q].value \notin ErrorValues

\* C3: query produces an answer only when it was issued in state Ready; in
\* every other state it returns the not-ready error.
C3_AnswerOnlyWhenReady ==
    \A q \in Queriers :
        (qpc[q] = "done" /\ qret[q].mgr # "Ready") => qret[q].kind = "not_ready"

\* C4: when add_document(content, name) returns True, the index behind the
\* chain that queries read holds the chunk of the new content.
C4_AddedIsIndexed ==
    \A t \in Mutators :
        (pc[t] = "done" /\ op[t] = "add" /\ ret[t] = "True") =>
            /\ qa_chain.kind = "chain"
            /\ arg[t] \in qa_chain.store.vec
            /\ arg[t] \in qa_chain.store.docs

\* C5: the index an agent serves was built with the agent's own
\* embedding-model identity.
C5_OwnIdentity ==
    (phase = "up" /\ qa_chain.kind = "chain") =>
        qa_chain.store.model = embeddings_model

\* C6: a crash while the index is written leaves nothing a later
\* initialization takes for a cached index: whenever the constructor has
\* decided to load the persisted index, that index is complete.
C6_LoadsOnlyComplete ==
    \A t \in Mutators :
        (op[t] = "init" /\ pc[t] = "load") =>
            /\ Loadable(index_dirs[Path])
            /\ Consistent(LoadLocal(index_dirs[Path]))

\* the threads inside the delete-cache / ingest / persist / swap steps
Rebuilding == {t \in Mutators : op[t] \in {"add", "rebuild"} /\ pc[t] \in RebuildPcs}

\* C7 (SpecConcurrent): at most one rebuild is in flight at any time.
C7_OneRebuild == Cardinality(Rebuilding) <= 1

\* C8 (SpecConcurrent): every query that is answered retrieved from one
\* fully built index: the store of the chain it invoked holds the vectors
\* and the docstore of one build, never a mix of two.
C8_OneBuiltIndex ==
    \A q \in Queriers :
        (qpc[q] = "done" /\ qret[q].kind = "answer") =>
            Consistent(qret[q].chain.store)

\* C9: a provider failure during query, a connection failure or a timeout,
\* is reported as the provider-unavailable error.
C9_ProviderUnavailable ==
    \A q \in Queriers :
        (qpc[q] = "done" /\ qret[q].fault \in ProviderFailures) =>
            qret[q].value = UnreachableMsg

\* C10: the index served in state Ready holds every document added
\* successfully through add_document that is still in the directory as it
\* was added (and that the ingestion reads).
C10_ServesAdded ==
    (CallerFree /\ ManagerState = "Ready") =>
        \A d \in added :
            (files[d[1]] = d[2] /\ Globbed(d[1])) => d \in qa_chain.store.docs

\* C11: when the embedding provider or the storage layer errors during
\* initialization, add_document or rebuild_index, the caller of that
\* operation receives the underlying cause, and no query is answered from an
\* empty or partially built index.
C11_FailureSurfaced ==
    /\ \A t \in Mutators :
           exc[t].raised # NoException => exc[t].out = exc[t].raised
    /\ \A q \in Queriers :
           (qpc[q] = "done" /\ qret[q].kind = "answer") =>
               /\ qret[q].chain.store.vec # {}
               /\ Consistent(qret[q].chain.store)

\* C12 (SpecBound): _summarize_text is idempotent: for every text, every
\* max_length > 0 and every provider behaviour, applying it to its own output
\* with the same max_length returns that output unchanged and calls the
\* provider no further time.
C12_Idempotent ==
    (b_pc = "twice" /\ b_in.max_length > 0) =>
        /\ b_out = b_in.text
        /\ b_calls = 0

\* the persisted index d is complete and was built with the embedding model
Compatible(d, model) ==
    Loadable(d) /\ d.faiss.model = model /\ Consistent(LoadLocal(d))

\* C13: on initialization the persisted index is loaded exactly when a
\* compatible one exists, and loading reads no document and leaves the
\* persisted copy as it is; in every other case the documents are ingested
\* and the run ends with a persisted index of the agent's model at the
\* model-derived location.
C13_LoadOrRebuild ==
    \A t \in Mutators :
        op[t] = "init" =>
            /\ pc[t] = "load" => Compatible(index_dirs[Path], embeddings_model)
            /\ pc[t] \in {"ingest", "sample", "embed", "save1", "save2"} =>
                   ~Compatible(index_dirs[Path], embeddings_model)
            /\ pc[t] = "chain" =>
                   /\ Compatible(index_dirs[Path], embeddings_model)
                   /\ vector_store = LoadLocal(index_dirs[Path])

\* C14 (SpecQuery) as claimed: every answer query returns equals _summarize_text applied
\* to the raw generated text with the configured maximum, for every
\* configured value, 0 and none included.
C14_ControllerApplied ==
    \A q \in Queriers :
        (qpc[q] = "done" /\ qret[q].kind = "answer") =>
            qret[q].value = SummarizeText(qret[q].raw, qret[q].max_length, llm, qret[q].resp)

\* C14 (SpecQuery) as amended: every answer query returns equals _summarize_text applied
\* to the raw generated text with the configured maximum when that maximum
\* is not 0 (a negative maximum gives the empty text); with a maximum of 0,
\* which is also what no configured maximum comes to, the answer is the raw
\* generated text.
C14_ControllerUnlessZero ==
    \A q \in Queriers :
        (qpc[q] = "done" /\ qret[q].kind = "answer") =>
            qret[q].value =
                IF qret[q].max_length = 0 THEN qret[q].raw
                ELSE SummarizeText(qret[q].raw, qret[q].max_length, llm, qret[q].resp)

\* a query whose raw text was longer than the configured maximum came back
\* shortened
C14_Witness ==
    \E q \in Queriers :
        /\ qpc[q] = "done" /\ qret[q].kind = "answer"
        /\ qret[q].max_length > 0
        /\ Len(qret[q].raw) > qret[q].max_length
        /\ qret[q].value # qret[q].raw

\* C15: building the index never changes the document set: no step of the
\* constructor or of rebuild_index writes or removes a file of the documents
\* directory, also when the directory holds no document.
C15_BuildKeepsDocuments ==
    [][\A t \in Mutators : op[t] \in {"init", "rebuild"} => files' = files]_vars

\* C16: when add_document returns False the knowledge base is as it was
\* before the call: the documents directory holds the same files with the
\* same contents, the persisted index at the agent's path is still there if
\* it was there, and query reads the same index.
C16_FailedAddChangesNothing ==
    \A t \in Mutators :
        (pc[t] = "done" /\ op[t] = "add" /\ ret[t] = "False") =>
            /\ files = before[t].files
            /\ Exists(before[t].dir) => Exists(index_dirs[Path])
            /\ qa_chain = before[t].chain

\* the names add_document makes up when it is given none
AutoNames == {AutoName(now) : now \in 0..MaxClock}
\* the files of the documents directory fs
Present(fs) == {n \in FileNames : fs[n] # NoFile}

\* every file the call of thread t found in the directory is the sample
\* document or was put there by an earlier add_document that returned True
FoundSuccessfulAdds(t) ==
    \A n \in Present(before[t].files) :
        n = SampleName \/ <<n, before[t].files[n]>> \in added \ {arg[t]}

\* C17: over successful calls of add_document, a call without a name creates
\* a new file: the name it writes was not in the directory, every file that
\* was there keeps its content, and the directory holds one file more.
C17_AddCreatesNewFile ==
    \A t \in Mutators :
        (/\ pc[t] = "done" /\ op[t] = "add" /\ ret[t] = "True"
         /\ arg[t][1] \in AutoNames
         /\ FoundSuccessfulAdds(t)) =>
            /\ before[t].files[arg[t][1]] = NoFile
            /\ \A n \in Present(before[t].files) : files[n] = before[t].files[n]
            /\ Cardinality(Present(files)) = Cardinality(Present(before[t].files)) + 1

=============================================================================
